---- MODULE Spec2Model ----
(***************************************************************************)
(* smartmake: detection of the build system that governs the current       *)
(* working directory (src/main.rs) and construction of the build command.  *)
(*                                                                         *)
(* Spec       : one run of main() over a nondeterministically chosen       *)
(*              filesystem, one action per step of main/find_build_dir.    *)
(* FairSpec   : Spec with weak fairness of the program's steps (the        *)
(*              program is sequential and always takes its next step).     *)
(* DetectSpec : get_build_system / from_filename applied to a directory    *)
(*              listing that grows one entry at a time.                    *)
(***************************************************************************)
EXTENDS Naturals, Sequences, FiniteSets, TLC

VARIABLES
    startDir,    \* env: the process's working directory, a sequence of components
    dirs,        \* env: path -> directory state, for every path the search can reach
    argThreads,  \* env: Args.threads, Option<usize>
    hostPar,     \* env: available_parallelism()
    pc,          \* position in main / find_build_dir
    threads,     \* main: let threads
    cwd,         \* find_build_dir: let mut cwd
    listed,      \* paths handed to read_dir so far, in order
    found,       \* find_build_dir's return value, Option<(BuildProgram, PathBuf)>
    command,     \* BuildProgram::run: let command
    stdout,      \* lines printed
    spawned,     \* commands handed to process execution
    exitStatus,  \* <<>> while running, <<code>> once the process has ended
    dirEntries,  \* DetectSpec: the listing of the directory under test
    detected,    \* DetectSpec: get_build_system of that listing
    mapped       \* DetectSpec: from_filename of the entry appended last

vars == <<startDir, dirs, argThreads, hostPar, pc, threads, cwd, listed, found,
          command, stdout, spawned, exitStatus, dirEntries, detected, mapped>>

envVars == <<startDir, dirs, argThreads, hostPar>>
detectVars == <<dirEntries, detected, mapped>>

----------------------------------------------------------------------------
(* Bounds *)

MaxDepth == 2       \* the working directory is at most this deep below the root
MaxEntries == 3     \* DetectSpec: longest listing

----------------------------------------------------------------------------
(* Option<BuildProgram>, Result<Option<BuildProgram>> *)

Some(p) == [some |-> TRUE, prog |-> p]
None == [some |-> FALSE, prog |-> ""]
Ok(v) == [ok |-> TRUE, val |-> v]
Err == [ok |-> FALSE, val |-> None]

(* enum BuildProgram *)
BuildProgram == {"Make", "Ninja", "Cargo", "CMake"}

(* from_filename as it would be were the match not case-sensitive for    *)
(* Cargo.toml and Makefile                                               *)
from_filename_caseless(s) ==
    CASE s \in {"makefile", "Makefile", "GNUmakefile", "MAKEFILE"} -> Some("Make")
      [] s = "build.ninja" -> Some("Ninja")
      [] s \in {"Cargo.toml", "cargo.toml"} -> Some("Cargo")
      [] s = "CMakeLists.txt" -> Some("CMake")
      [] OTHER -> None

(* BuildProgram::from_filename: an exact match on the whole name *)
from_filename(s) ==
    CASE s \in {"makefile", "Makefile", "GNUmakefile"} -> Some("Make")
      [] s = "build.ninja" -> Some("Ninja")
      [] s = "Cargo.toml" -> Some("Cargo")
      [] s = "CMakeLists.txt" -> Some("CMake")
      [] OTHER -> None

----------------------------------------------------------------------------
(* Directory entries as read_dir yields them: io::Result<DirEntry>.  An      *)
(* entry is an error, or it has a file name that is UTF-8 (to_str is Some)  *)
(* or is not (to_str is None).                                              *)

OkEntry(n) == [err |-> FALSE, utf8 |-> TRUE, name |-> n]
IoErrEntry == [err |-> TRUE, utf8 |-> TRUE, name |-> ""]
NonUtf8Entry == [err |-> FALSE, utf8 |-> FALSE, name |-> ""]

(* The for loop of get_build_system from entry i on *)
RECURSIVE ScanEntries(_, _)
ScanEntries(entries, i) ==
    IF i > Len(entries) THEN Ok(None)
    ELSE IF entries[i].err THEN Err
    ELSE IF ~entries[i].utf8 THEN ScanEntries(entries, i + 1)
    ELSE LET build_program == from_filename(entries[i].name)
         IN IF build_program.some THEN Ok(build_program)
            ELSE ScanEntries(entries, i + 1)

(* Directory states.  read_dir fails on a path that is absent, is not a     *)
(* directory, or may not be read.                                           *)
Dir(entries) == [kind |-> "dir", entries |-> entries]
NoPermDir == [kind |-> "noperm", entries |-> <<>>]
FileNotDir == [kind |-> "file", entries |-> <<>>]
Absent == [kind |-> "absent", entries |-> <<>>]
StatErr == [kind |-> "staterr", entries |-> <<>>]

(* get_build_system as it would be were the loop to keep the last match *)
RECURSIVE ScanEntriesLast(_, _, _)
ScanEntriesLast(entries, i, acc) ==
    IF i > Len(entries) THEN Ok(acc)
    ELSE IF entries[i].err THEN Err
    ELSE IF ~entries[i].utf8 THEN ScanEntriesLast(entries, i + 1, acc)
    ELSE LET build_program == from_filename(entries[i].name)
         IN ScanEntriesLast(entries, i + 1,
                            IF build_program.some THEN build_program ELSE acc)

get_build_system_last(d) ==
    IF d.kind # "dir" THEN Err ELSE ScanEntriesLast(d.entries, 1, None)

(* get_build_system as it would be were entries that fail to read skipped *)
RECURSIVE ScanEntriesSkipErr(_, _)
ScanEntriesSkipErr(entries, i) ==
    IF i > Len(entries) THEN Ok(None)
    ELSE IF entries[i].err \/ ~entries[i].utf8 THEN ScanEntriesSkipErr(entries, i + 1)
    ELSE LET build_program == from_filename(entries[i].name)
         IN IF build_program.some THEN Ok(build_program)
            ELSE ScanEntriesSkipErr(entries, i + 1)

get_build_system_skip_errors(d) ==
    IF d.kind # "dir" THEN Ok(None) ELSE ScanEntriesSkipErr(d.entries, 1)

get_build_system(d) ==
    IF d.kind # "dir" THEN Err ELSE ScanEntries(d.entries, 1)

----------------------------------------------------------------------------
(* PathBuf: a sequence of components below the root *)

push(p, c) == Append(p, c)
pop(p) == SubSeq(p, 1, Len(p) - 1)
CanPop(p) == Len(p) > 0

RECURSIVE as_os_str(_)
as_os_str(p) ==
    IF Len(p) = 0 THEN "/"
    ELSE IF Len(p) = 1 THEN "/" \o p[1]
    ELSE as_os_str(pop(p)) \o "/" \o p[Len(p)]

(* usize::to_string *)
Digit(d) ==
    CASE d = 0 -> "0" [] d = 1 -> "1" [] d = 2 -> "2" [] d = 3 -> "3"
      [] d = 4 -> "4" [] d = 5 -> "5" [] d = 6 -> "6" [] d = 7 -> "7"
      [] d = 8 -> "8" [] d = 9 -> "9"

RECURSIVE to_string(_)
to_string(n) ==
    IF n < 10 THEN Digit(n) ELSE to_string(n \div 10) \o Digit(n % 10)

----------------------------------------------------------------------------
(* std::process::Command: program and argument list *)

Command(program, args) == [program |-> program, args |-> args]
NoCommand == [program |-> "", args |-> <<>>]

build_make_command(t, directory) ==
    Command("make", <<"-j", to_string(t), "-C", as_os_str(directory)>>)

build_ninja_command(t, directory) ==
    Command("ninja", <<"-j", to_string(t), "-C", as_os_str(directory)>>)

(* build_cmake_command as it would be with the flags in make's order *)
build_cmake_command_make_order(t, directory) ==
    Command("cmake", <<"-j", to_string(t), "-C", as_os_str(directory)>>)

build_cmake_command(t, directory) ==
    Command("cmake", <<"-C", as_os_str(directory), "-j", to_string(t)>>)

build_cargo_command == Command("cargo build", <<>>)

run_command(self, t, directory) ==
    CASE self = "Make" -> build_make_command(t, directory)
      [] self = "Ninja" -> build_ninja_command(t, directory)
      [] self = "CMake" -> build_cmake_command(t, directory)
      [] self = "Cargo" -> build_cargo_command

(* {:?} of a Command: the program and each argument, quoted *)
RECURSIVE DebugArgs(_, _)
DebugArgs(args, i) ==
    IF i > Len(args) THEN ""
    ELSE " \"" \o args[i] \o "\"" \o DebugArgs(args, i + 1)

DebugCommand(c) == "\"" \o c.program \o "\"" \o DebugArgs(c.args, 1)

----------------------------------------------------------------------------
(* The environment of one run *)

Components == <<"proj", "src", "core", "deep", "leaf">>

StartDirs == {SubSeq(Components, 1, d) : d \in 0..MaxDepth}

(* The directories find_build_dir can reach from sd *)
AncestorsOrSelf(sd) == {SubSeq(sd, 1, k) : k \in 0..Len(sd)}
SearchPaths(sd) == AncestorsOrSelf(sd) \cup {push(sd, "build")}

BaseListings ==
    { <<>>,
      <<OkEntry("README.md")>>,
      <<OkEntry("Makefile")>>,
      <<OkEntry("Cargo.toml")>>,
      <<OkEntry("CMakeLists.txt"), OkEntry("build.ninja")>>,
      <<OkEntry("build.ninja"), IoErrEntry>>,
      <<IoErrEntry, OkEntry("Makefile")>> }

PlainDirStates == {NoPermDir} \cup {Dir(l) : l \in BaseListings}
BuildDirStates == {Absent, FileNotDir, StatErr} \cup PlainDirStates

(* A directory's listing names its subdirectory on the search path: an      *)
(* ancestor lists the next component of sd, and sd lists "build" when that  *)
(* exists (first or last: the listing order is the filesystem's).           *)
MkDir(sd, base, b, buildFirst, p) ==
    IF p = push(sd, "build") THEN b
    ELSE IF base[p].kind # "dir" THEN base[p]
    ELSE IF p = sd
         THEN IF b.kind = "absent" THEN base[p]
              ELSE IF buildFirst THEN Dir(<<OkEntry("build")>> \o base[p].entries)
              ELSE Dir(base[p].entries \o <<OkEntry("build")>>)
    ELSE Dir(<<OkEntry(sd[Len(p) + 1])>> \o base[p].entries)

MkFs(sd, base, b, buildFirst) ==
    [p \in SearchPaths(sd) |-> MkDir(sd, base, b, buildFirst, p)]

NoThreads == [some |-> FALSE, val |-> 0]
ThreadsArg(n) == [some |-> TRUE, val |-> n]
ArgThreadsChoices == {NoThreads, ThreadsArg(4), ThreadsArg(100)}
HostParallelism == {12}

FoundAt(p, path) == [some |-> TRUE, prog |-> p, path |-> path]
NotFound == [some |-> FALSE, prog |-> "", path |-> <<>>]

EnvInit ==
    /\ startDir \in StartDirs
    /\ \E base \in [AncestorsOrSelf(startDir) -> PlainDirStates],
          b \in BuildDirStates, buildFirst \in BOOLEAN :
            dirs = MkFs(startDir, base, b, buildFirst)
    /\ argThreads \in ArgThreadsChoices
    /\ hostPar \in HostParallelism

ProgInit(startPc) ==
    /\ pc = startPc
    /\ threads = 0
    /\ cwd = <<>>
    /\ listed = <<>>
    /\ found = NotFound
    /\ command = NoCommand
    /\ stdout = <<>>
    /\ spawned = <<>>
    /\ exitStatus = <<>>

DetectIdle ==
    /\ dirEntries = <<>>
    /\ detected = Ok(None)
    /\ mapped = None

Init == EnvInit /\ ProgInit("main") /\ DetectIdle

----------------------------------------------------------------------------
(* main and find_build_dir, one action per step *)

(* Result::unwrap on an Err: the thread panics and the process ends, 101 *)
Panic ==
    /\ pc' = "panicked"
    /\ exitStatus' = <<101>>

(* if let Some(program) = get_build_system(path).unwrap() { return Some((program, path)) } *)
TryDir(path, missPc) ==
    /\ listed' = Append(listed, path)
    /\ LET r == get_build_system(dirs[path])
       IN IF ~r.ok THEN Panic /\ found' = found
          ELSE IF r.val.some
               THEN /\ found' = FoundAt(r.val.prog, path)
                    /\ pc' = "run"
                    /\ exitStatus' = exitStatus
          ELSE /\ pc' = missPc
               /\ UNCHANGED <<found, exitStatus>>

(* main: Args::parse and the thread count.  Args::parse is taken to return  *)
(* (no --help, no malformed flag) and available_parallelism to succeed.    *)
ParseArgs ==
    /\ pc = "main"
    /\ threads' = IF argThreads.some THEN argThreads.val ELSE hostPar
    /\ pc' = "find_cwd"
    /\ UNCHANGED <<envVars, detectVars, cwd, listed, found, command, stdout,
                   spawned, exitStatus>>

(* FindCwd as it would be were the match in the working directory not     *)
(* returned at once                                                       *)
FindCwd_no_return ==
    /\ pc = "find_cwd"
    /\ cwd' = startDir
    /\ listed' = Append(listed, startDir)
    /\ LET r == get_build_system(dirs[startDir])
       IN IF ~r.ok THEN Panic /\ found' = found
          ELSE /\ found' = IF r.val.some THEN FoundAt(r.val.prog, startDir) ELSE found
               /\ pc' = "find_build"
               /\ exitStatus' = exitStatus
    /\ UNCHANGED <<envVars, detectVars, threads, command, stdout, spawned>>

(* find_build_dir: the working directory itself (current_dir is taken to   *)
(* succeed)                                                                *)
FindCwd ==
    /\ pc = "find_cwd"
    /\ cwd' = startDir
    /\ TryDir(startDir, "find_build")
    /\ UNCHANGED <<envVars, detectVars, threads, command, stdout, spawned>>

(* FindBuild as it would be were the build subdirectory never looked at *)
FindBuild_skipped ==
    /\ pc = "find_build"
    /\ pc' = "find_walk"
    /\ UNCHANGED <<envVars, detectVars, threads, cwd, listed, found, command,
                   stdout, spawned, exitStatus>>

(* find_build_dir: the build subdirectory, when it exists *)
FindBuild ==
    /\ pc = "find_build"
    /\ LET build_dir == push(cwd, "build")
       IN IF dirs[build_dir].kind = "staterr"
          THEN Panic /\ UNCHANGED <<listed, found>>
          ELSE IF dirs[build_dir].kind # "absent"
               THEN TryDir(build_dir, "find_walk")
          ELSE /\ pc' = "find_walk"
               /\ UNCHANGED <<listed, found, exitStatus>>
    /\ UNCHANGED <<envVars, detectVars, threads, cwd, command, stdout, spawned>>

(* FindWalk as it would be were the walk to go on after a match, so that  *)
(* the farthest ancestor's marker is the one returned                     *)
FindWalk_farthest ==
    /\ pc = "find_walk"
    /\ IF CanPop(cwd)
       THEN /\ cwd' = pop(cwd)
            /\ listed' = Append(listed, pop(cwd))
            /\ LET r == get_build_system(dirs[pop(cwd)])
               IN IF ~r.ok THEN Panic /\ found' = found
                  ELSE /\ found' = IF r.val.some THEN FoundAt(r.val.prog, pop(cwd))
                                   ELSE found
                       /\ pc' = "find_walk"
                       /\ exitStatus' = exitStatus
       ELSE /\ pc' = IF found.some THEN "run" ELSE "print_none"
            /\ UNCHANGED <<cwd, listed, found, exitStatus>>
    /\ UNCHANGED <<envVars, detectVars, threads, command, stdout, spawned>>

(* find_build_dir: one turn of while cwd.pop(), or the final None *)
FindWalk ==
    /\ pc = "find_walk"
    /\ IF CanPop(cwd)
       THEN /\ cwd' = pop(cwd)
            /\ TryDir(pop(cwd), "find_walk")
       ELSE /\ pc' = "print_none"
            /\ found' = NotFound
            /\ UNCHANGED <<cwd, listed, exitStatus>>
    /\ UNCHANGED <<envVars, detectVars, threads, command, stdout, spawned>>

(* main: build_program.run(threads, path), then main returns *)
Run ==
    /\ pc = "run"
    /\ command' = run_command(found.prog, threads, found.path)
    /\ stdout' = Append(stdout, "Command: " \o DebugCommand(command'))
    /\ pc' = "exited"
    /\ exitStatus' = <<0>>
    /\ UNCHANGED <<envVars, detectVars, threads, cwd, listed, found, spawned>>

(* PrintNotFound as it would be were "nothing to build" a failure *)
PrintNotFound_failure ==
    /\ pc = "print_none"
    /\ stdout' = Append(stdout, "No build system found")
    /\ pc' = "exited"
    /\ exitStatus' = <<1>>
    /\ UNCHANGED <<envVars, detectVars, threads, cwd, listed, found, command,
                   spawned>>

(* main: the else branch, then main returns *)
PrintNotFound ==
    /\ pc = "print_none"
    /\ stdout' = Append(stdout, "No build system found")
    /\ pc' = "exited"
    /\ exitStatus' = <<0>>
    /\ UNCHANGED <<envVars, detectVars, threads, cwd, listed, found, command,
                   spawned>>

Next ==
    \/ ParseArgs
    \/ FindCwd
    \/ FindBuild
    \/ FindWalk
    \/ Run
    \/ PrintNotFound

Spec == Init /\ [][Next]_vars

(* The program is sequential: while it has a next step it takes it *)
FairSpec == Spec /\ WF_vars(Next)

----------------------------------------------------------------------------
(* get_build_system on one directory whose listing grows entry by entry *)

DetectNames ==
    {"makefile", "Makefile", "GNUmakefile", "build.ninja", "Cargo.toml",
     "CMakeLists.txt", "cargo.toml", "MAKEFILE", "Makefile.am", "build", "main.rs"}

DetectEntries == {OkEntry(n) : n \in DetectNames} \cup {IoErrEntry, NonUtf8Entry}

DetectInit ==
    /\ startDir = <<>>
    /\ dirs = MkFs(<<>>, [p \in {<<>>} |-> Dir(<<>>)], Absent, FALSE)
    /\ argThreads = NoThreads
    /\ hostPar \in HostParallelism
    /\ ProgInit("detect")
    /\ dirEntries = <<>>
    /\ detected = get_build_system(Dir(<<>>))
    /\ mapped = None

(* One more entry appears in the listing; the directory is detected again *)
DetectAppend ==
    /\ pc = "detect"
    /\ Len(dirEntries) < MaxEntries
    /\ \E e \in DetectEntries :
        /\ dirEntries' = Append(dirEntries, e)
        /\ mapped' = IF e.err \/ ~e.utf8 THEN None ELSE from_filename(e.name)
    /\ detected' = get_build_system(Dir(dirEntries'))
    /\ UNCHANGED <<envVars, pc, threads, cwd, listed, found, command, stdout,
                   spawned, exitStatus>>

DetectNext == DetectAppend

DetectSpec == DetectInit /\ [][DetectNext]_vars

----------------------------------------------------------------------------
(* The marker table of the specification, section 3 *)

MarkerNames ==
    {"makefile", "Makefile", "GNUmakefile", "build.ninja", "Cargo.toml",
     "CMakeLists.txt"}

MarkerIdentity ==
    ("makefile" :> "Make") @@ ("Makefile" :> "Make") @@ ("GNUmakefile" :> "Make")
    @@ ("build.ninja" :> "Ninja") @@ ("Cargo.toml" :> "Cargo")
    @@ ("CMakeLists.txt" :> "CMake")

IsMarkerEntry(e) == ~e.err /\ e.utf8 /\ e.name \in MarkerNames

MarkerIndexes(entries) == {i \in 1..Len(entries) : IsMarkerEntry(entries[i])}

(* Every entry of the listing is read without error *)
ReadableListing(entries) == \A i \in 1..Len(entries) : ~entries[i].err

FirstMarker(entries) ==
    CHOOSE i \in MarkerIndexes(entries) : \A j \in MarkerIndexes(entries) : i <= j

----------------------------------------------------------------------------
(* C1: from_filename maps makefile, Makefile and GNUmakefile to Make,       *)
(* build.ninja to Ninja, Cargo.toml to Cargo, CMakeLists.txt to CMake and   *)
(* every other name, case variants included, to no identity; a readable     *)
(* listing that holds exactly one marker is detected as that marker's       *)
(* identity.                                                                *)
C1_MarkerMapping ==
    /\ \A i \in 1..Len(dirEntries) :
         (i = Len(dirEntries) /\ ~dirEntries[i].err /\ dirEntries[i].utf8) =>
            LET n == dirEntries[i].name
            IN /\ n \in MarkerNames => mapped = Some(MarkerIdentity[n])
               /\ n \notin MarkerNames => mapped = None
    /\ (ReadableListing(dirEntries) /\ Cardinality(MarkerIndexes(dirEntries)) = 1) =>
          \A i \in MarkerIndexes(dirEntries) :
              detected = Ok(Some(MarkerIdentity[dirEntries[i].name]))

(* A case variant is mapped to nothing beside the one marker that decides *)
C1_Witness ==
    /\ dirEntries = <<OkEntry("GNUmakefile"), OkEntry("cargo.toml")>>
    /\ mapped = None
    /\ detected = Ok(Some("Make"))

(* C2: for a listing read without error, get_build_system returns the      *)
(* identity of the first marker entry in listing order, and none exactly    *)
(* when the listing holds no marker; what follows the first marker does     *)
(* not matter.                                                              *)
C2_FirstMatchWins ==
    ReadableListing(dirEntries) =>
        IF MarkerIndexes(dirEntries) = {}
        THEN detected = Ok(None)
        ELSE /\ detected =
                  Ok(Some(MarkerIdentity[dirEntries[FirstMarker(dirEntries)].name]))
             /\ detected # Ok(None)

C2_Witness ==
    /\ dirEntries = <<OkEntry("main.rs"), OkEntry("Cargo.toml"), OkEntry("Makefile")>>
    /\ detected = Ok(Some("Cargo"))

----------------------------------------------------------------------------
(* What a directory state yields when listed, in the words of the          *)
(* specification: a marker (the first one, met before any entry that fails *)
(* to read), none (every entry read, no marker), or a failure.             *)

HasMarkerFirst(d) ==
    /\ d.kind = "dir"
    /\ MarkerIndexes(d.entries) # {}
    /\ \A j \in 1..Len(d.entries) :
          j < FirstMarker(d.entries) => ~d.entries[j].err

IdentityOf(d) == MarkerIdentity[d.entries[FirstMarker(d.entries)].name]

YieldsNone(d) ==
    /\ d.kind = "dir"
    /\ MarkerIndexes(d.entries) = {}
    /\ ReadableListing(d.entries)

ListingFails(d) ==
    \/ d.kind # "dir"
    \/ \E j \in 1..Len(d.entries) :
          /\ d.entries[j].err
          /\ \A k \in 1..(j - 1) : ~IsMarkerEntry(d.entries[k])

BuildDir == push(startDir, "build")
ProperAncestors == AncestorsOrSelf(startDir) \ {startDir}
BuildYieldsNothing == dirs[BuildDir].kind = "absent" \/ YieldsNone(dirs[BuildDir])

(* The order in which the search lists directories *)
SearchOrder ==
    <<startDir>>
    \o (IF dirs[BuildDir].kind \in {"absent", "staterr"} THEN <<>> ELSE <<BuildDir>>)
    \o [i \in 1..Len(startDir) |-> SubSeq(startDir, 1, Len(startDir) - i)]

(* C3: when the working directory holds a marker, find_build_dir returns   *)
(* (its identity, the working directory), whatever build/ and the          *)
(* ancestors hold, and lists no directory but the working directory.       *)
C3_CwdMarkerWins ==
    (HasMarkerFirst(dirs[startDir]) /\ pc \notin {"main", "find_cwd"}) =>
        /\ pc \in {"run", "exited"}
        /\ found = FoundAt(IdentityOf(dirs[startDir]), startDir)
        /\ listed = <<startDir>>

C3_Witness ==
    /\ pc = "exited"
    /\ Len(startDir) = 2
    /\ HasMarkerFirst(dirs[startDir])
    /\ HasMarkerFirst(dirs[BuildDir])
    /\ \A a \in ProperAncestors : HasMarkerFirst(dirs[a])
    /\ found.path = startDir

(* C4: when the working directory yields no marker and build/ exists and   *)
(* holds a marker, find_build_dir returns (its identity, cwd/build) even   *)
(* when ancestors hold markers; the upward walk starts only when build/ is *)
(* absent or yields no marker.                                             *)
C4_BuildBeforeAncestors ==
    /\ (/\ YieldsNone(dirs[startDir])
        /\ HasMarkerFirst(dirs[BuildDir])
        /\ pc \notin {"main", "find_cwd", "find_build"}) =>
          /\ pc \in {"run", "exited"}
          /\ found = FoundAt(IdentityOf(dirs[BuildDir]), BuildDir)
          /\ listed = <<startDir, BuildDir>>
          /\ cwd = startDir
    /\ (\/ pc \in {"find_walk", "print_none"}
        \/ \E i \in 1..Len(listed) : listed[i] \in ProperAncestors) =>
          BuildYieldsNothing

C4_Witness ==
    /\ pc = "exited"
    /\ Len(startDir) = 2
    /\ YieldsNone(dirs[startDir])
    /\ HasMarkerFirst(dirs[BuildDir])
    /\ \A a \in ProperAncestors : HasMarkerFirst(dirs[a])
    /\ found.path = BuildDir

(* C5: when neither the working directory nor build/ yields a marker, the  *)
(* ancestors are listed one parent at a time, nearest first, and what      *)
(* find_build_dir returns is (identity, A) for the nearest ancestor A that *)
(* holds a marker, never a farther one.                                    *)
MarkerAncestors == {a \in ProperAncestors : HasMarkerFirst(dirs[a])}

NearestMarkerAncestor ==
    CHOOSE a \in MarkerAncestors : \A b \in MarkerAncestors : Len(b) <= Len(a)

C5_NearestAncestor ==
    /\ Len(listed) <= Len(SearchOrder)
    /\ listed = SubSeq(SearchOrder, 1, Len(listed))
    /\ (/\ YieldsNone(dirs[startDir])
        /\ BuildYieldsNothing
        /\ MarkerAncestors # {}
        /\ pc \in {"run", "print_none", "exited"}) =>
          found = FoundAt(IdentityOf(dirs[NearestMarkerAncestor]),
                          NearestMarkerAncestor)

(* From /proj/src, where only the root holds a marker *)
C5_Witness ==
    /\ pc = "exited"
    /\ Len(startDir) = 2
    /\ YieldsNone(dirs[startDir])
    /\ YieldsNone(dirs[BuildDir])
    /\ MarkerAncestors = {<<>>}
    /\ YieldsNone(dirs[pop(startDir)])
    /\ found = FoundAt(IdentityOf(dirs[<<>>]), <<>>)
    /\ listed = <<startDir, BuildDir, pop(startDir), <<>>>>

(* C6: when every directory of the search path lists without a marker, the *)
(* search ends with none after at most one listing per directory, and the  *)
(* program prints "No build system found" and ends with status 0, no build *)
(* command constructed.                                                    *)
NoMarkerAnywhere ==
    /\ YieldsNone(dirs[startDir])
    /\ BuildYieldsNothing
    /\ \A a \in ProperAncestors : YieldsNone(dirs[a])

NotFoundOutcome ==
    /\ pc = "exited"
    /\ found = NotFound
    /\ stdout = <<"No build system found">>
    /\ exitStatus = <<0>>
    /\ command = NoCommand
    /\ spawned = <<>>

C7_CargoCommand ==
    (pc = "exited" /\ found.some /\ found.prog = "Cargo") =>
        command = Command("cargo", <<"build">>)

(* C8: for thread count t and directory d returned by the search, Make     *)
(* gives make -j t -C d, Ninja gives ninja -j t -C d and CMake gives       *)
(* cmake -C d -j t; Make with t = 4 and d = /proj gives -j 4 -C /proj.     *)
C8_CommandArgs ==
    (pc = "exited" /\ found.some) =>
        LET t == to_string(threads)
            d == as_os_str(found.path)
        IN /\ found.prog = "Make" => command = Command("make", <<"-j", t, "-C", d>>)
           /\ found.prog = "Ninja" => command = Command("ninja", <<"-j", t, "-C", d>>)
           /\ found.prog = "CMake" => command = Command("cmake", <<"-C", d, "-j", t>>)
           /\ (found.prog = "Make" /\ threads = 4 /\ found.path = <<"proj">>) =>
                 command.args = <<"-j", "4", "-C", "/proj">>
           /\ (found.prog = "CMake" /\ threads = 12
                 /\ found.path = <<"proj", "build">>) =>
                 command.args = <<"-C", "/proj/build", "-j", "12">>
           /\ (found.prog = "Ninja" /\ threads = 100 /\ found.path = <<>>) =>
                 command.args = <<"-j", "100", "-C", "/">>

C8_Witness ==
    /\ pc = "exited"
    /\ found = FoundAt("Make", <<"proj">>)
    /\ threads = 4
    /\ command = Command("make", <<"-j", "4", "-C", "/proj">>)

(* C9: a run that found a build system hands the constructed command to    *)
(* process execution before it ends.                                       *)
C9_CommandExecuted ==
    (pc = "exited" /\ found.some) => spawned = <<command>>

(* C10: when listing a directory the search reaches fails, or reading one  *)
(* of its entries fails, the run ends there in an error: no later          *)
(* directory is listed, nothing is found, no command is constructed and    *)
(* "No build system found" is not printed.                                 *)
C10_ListingFailureStops ==
    \A i \in 1..Len(listed) :
        ListingFails(dirs[listed[i]]) =>
            /\ i = Len(listed)
            /\ pc = "panicked"
            /\ exitStatus = <<101>>
            /\ ~found.some
            /\ command = NoCommand
            /\ stdout = <<>>
            /\ spawned = <<>>

(* An entry of /proj fails to read, after cwd and build/ yielded nothing   *)
(* and with a marker waiting in the root                                   *)
C10_Witness ==
    /\ pc = "panicked"
    /\ Len(startDir) = 2
    /\ listed = <<startDir, BuildDir, pop(startDir)>>
    /\ dirs[pop(startDir)].kind = "dir"
    /\ ListingFails(dirs[pop(startDir)])
    /\ HasMarkerFirst(dirs[<<>>])

====
